---- MODULE Spec2Model ----
(***************************************************************************)
(* A model of the valuation engine of src/python/stock_fair_value.py:      *)
(* the valuation calculator, the multi-source P/E aggregator with its      *)
(* cache, the raw data normalizer and the batch orchestrator.              *)
(*                                                                         *)
(* Number representation.  The program computes with binary floating       *)
(* point; the model computes with fixed point integers:                    *)
(*   money (prices, per-share values)   in 1/1000 of a dollar,             *)
(*   P/E ratios                         in 1/1000,                         *)
(*   growth rates                       in 1/1000 (0.08 is 80),            *)
(*   percent factors                    in 1/100  (0.85 is 85).            *)
(* Every division truncates (\div).  All quantities stay far below 2^31.   *)
(***************************************************************************)
EXTENDS Integers, Sequences, FiniteSets, TLC

VARIABLES
    \* --- valuation calculator, driven alone (SpecCalc)
    stock_data,        \* the record handed to calculate_fair_value
    dcf_value,         \* what calculate_dcf_value returned for it
    comps_value,       \* what calculate_comps_value returned for it
    fair_value,        \* what calculate_fair_value returned for it
    calc_pc,           \* "input" before the call, "done" after it
    \* --- the P/E cache, shared by every specification that fetches P/E
    pe_ratio_cache,    \* ticker -> conservative P/E; 0 where nothing is cached
    \* --- P/E aggregator, driven alone by sequential calls (SpecPE)
    pe_call,           \* the last get_conservative_pe_estimate call and its return
    \* --- aggregate_pe_ratios, driven alone (SpecAgg)
    agg_call,          \* the caller's list and what two calls on it returned
    \* --- raw data normalizer, driven alone (SpecFetch)
    fetch_call,        \* the last fetch_stock_data call and its return
    \* --- display_results, driven alone (SpecDisplay)
    display_call,      \* the list handed to display_results and what it showed
    \* --- batch orchestrator: run_valuation (Spec)
    fortune_500_tickers, \* the input list of tickers
    max_workers,       \* the size of the worker pool
    fut,               \* the submitted futures, in submission order
    results,           \* the list run_valuation builds
    collected,         \* for each entry of results, the future it came from
    pc,                \* where run_valuation is
    clock,             \* the time
    end_time,          \* the deadline as_completed computed on entry
    late               \* the futures not yet collected when the deadline fired

calcVars == <<stock_data, dcf_value, comps_value, fair_value, calc_pc>>
peVars == <<pe_ratio_cache, pe_call>>
orchVars == <<fortune_500_tickers, max_workers, fut, results, collected, pc,
              clock, end_time, late>>
aggVars == <<agg_call>>
fetchVars == <<fetch_call>>
displayVars == <<display_call>>
vars == <<calcVars, peVars, aggVars, fetchVars, displayVars, orchVars>>

\* the value of a part of the state that a specification does not use
Unused == <<>>
CalcIdle == stock_data = Unused /\ dcf_value = Unused /\ comps_value = Unused
            /\ fair_value = Unused /\ calc_pc = Unused
PeIdle == pe_ratio_cache = Unused /\ pe_call = Unused
AggIdle == agg_call = Unused
FetchIdle == fetch_call = Unused
DisplayIdle == display_call = Unused
OrchIdle == fortune_500_tickers = Unused /\ max_workers = Unused /\ fut = Unused
            /\ results = Unused /\ collected = Unused /\ pc = Unused
            /\ clock = Unused /\ end_time = Unused /\ late = Unused

----------------------------------------------------------------------------
(* StockValuator.__init__: the configuration *)

discount_rate == 12
max_growth_rate == 80
terminal_growth_rate == 8
dcf_weight == 6
comps_weight == 4
pe_conservative_factor == 85
max_pe_ratio == 40000
min_pe_ratio == 5000

\* the sector table, in whole P/E units as the source writes it
default_industry_pe_ratios ==
    [s \in {"Technology", "Healthcare", "Financial Services", "Consumer Cyclical",
            "Consumer Defensive", "Energy", "Industrials", "Materials",
            "Real Estate", "Utilities", "Communication Services", "Default"} |->
     CASE s = "Technology" -> 22 [] s = "Healthcare" -> 18
       [] s = "Financial Services" -> 10 [] s = "Consumer Cyclical" -> 16
       [] s = "Consumer Defensive" -> 20 [] s = "Energy" -> 12
       [] s = "Industrials" -> 13 [] s = "Materials" -> 12
       [] s = "Real Estate" -> 14 [] s = "Utilities" -> 16
       [] s = "Communication Services" -> 18 [] s = "Default" -> 18]

\* default_industry_pe_ratios.get(sector, default_industry_pe_ratios['Default']),
\* in 1/1000
industry_pe_of(sector) ==
    IF sector \in DOMAIN default_industry_pe_ratios
    THEN default_industry_pe_ratios[sector] * 1000
    ELSE default_industry_pe_ratios["Default"] * 1000

----------------------------------------------------------------------------
(* arithmetic helpers *)

Max(a, b) == IF a >= b THEN a ELSE b
Min(a, b) == IF a <= b THEN a ELSE b
Abs(a) == IF a < 0 THEN -a ELSE a

----------------------------------------------------------------------------
(* Raw provider values.  A field of a provider answer is absent, None, of  *)
(* an unusable type (a string such as 'N/A') or a number.                  *)

Num(n) == [k |-> "num", v |-> n]
Absent == [k |-> "absent", v |-> 0]
None == [k |-> "none", v |-> 0]
Bad == [k |-> "bad", v |-> 0]

\* dict.get(key, default): the default only when the key is absent
Get(x, default) == IF x.k = "absent" THEN default ELSE x

----------------------------------------------------------------------------
(* Multi-source P/E aggregator.  An Optional[float] return is an integer   *)
(* in 1/1000, with 0 standing for None.                                    *)

\* fetch_pe_from_yfinance.  yf is what yf.Ticker(ticker).info gave:
\* [raises |-> TRUE] when the call raised, else the three P/E fields.
\* The first usable field wins; a field of unusable type raises TypeError
\* in the comparison, which the function's own except turns into None.
RECURSIVE first_usable_pe(_)
first_usable_pe(fields) ==
    IF fields = <<>> THEN 0
    ELSE LET x == Head(fields) IN
         IF x.k = "bad" THEN 0
         ELSE IF x.k = "num" /\ x.v # 0 /\ x.v > 0 /\ x.v < 150000 THEN x.v
         ELSE first_usable_pe(Tail(fields))

\* a faulty variant, for sensitivity: the trailing P/E taken as reported
fetch_pe_from_yfinance_unfiltered(yf) ==
    IF yf.raises THEN 0
    ELSE IF yf.trailingPE.k = "num" THEN yf.trailingPE.v ELSE 0

fetch_pe_from_yfinance(yf) ==
    IF yf.raises THEN 0
    ELSE first_usable_pe(<<yf.trailingPE, yf.forwardPE, yf.priceToEarningsRatio>>)

\* fetch_pe_from_local_data: the hardcoded table
fallback_pe_ratios ==
    [t \in {"AAPL", "MSFT", "GOOGL", "AMZN", "NVDA", "META", "TSLA", "BRK-B",
            "UNH", "JNJ", "JPM", "V", "PG", "HD", "MA", "BAC", "ABBV", "PFE",
            "KO", "AVGO", "PEP", "TMO", "COST", "WMT", "MRK", "DIS", "ACN",
            "VZ", "ADBE", "NFLX", "NKE", "CRM", "DHR", "LIN", "TXN", "NEE",
            "ABT", "ORCL", "PM", "RTX", "QCOM", "HON", "WFC", "UPS", "T",
            "LOW", "SPGI", "ELV", "SCHW", "CAT"} |->
     CASE t = "AAPL" -> 24200 [] t = "MSFT" -> 27300 [] t = "GOOGL" -> 19400
       [] t = "AMZN" -> 38400 [] t = "NVDA" -> 55500 [] t = "META" -> 20500
       [] t = "TSLA" -> 49900 [] t = "BRK-B" -> 8300 [] t = "UNH" -> 15700
       [] t = "JNJ" -> 12900 [] t = "JPM" -> 11800 [] t = "V" -> 31200
       [] t = "PG" -> 24600 [] t = "HD" -> 18900 [] t = "MA" -> 29700
       [] t = "BAC" -> 12400 [] t = "ABBV" -> 13800 [] t = "PFE" -> 11500
       [] t = "KO" -> 22800 [] t = "AVGO" -> 25400 [] t = "PEP" -> 23700
       [] t = "TMO" -> 20900 [] t = "COST" -> 38200 [] t = "WMT" -> 25100
       [] t = "MRK" -> 14600 [] t = "DIS" -> 32800 [] t = "ACN" -> 23400
       [] t = "VZ" -> 9200 [] t = "ADBE" -> 41700 [] t = "NFLX" -> 28500
       [] t = "NKE" -> 26900 [] t = "CRM" -> 45300 [] t = "DHR" -> 22800
       [] t = "LIN" -> 19700 [] t = "TXN" -> 21300 [] t = "NEE" -> 19800
       [] t = "ABT" -> 18500 [] t = "ORCL" -> 22100 [] t = "PM" -> 16400
       [] t = "RTX" -> 15200 [] t = "QCOM" -> 14800 [] t = "HON" -> 21700
       [] t = "WFC" -> 10900 [] t = "UPS" -> 17600 [] t = "T" -> 8700
       [] t = "LOW" -> 19400 [] t = "SPGI" -> 34500 [] t = "ELV" -> 13200
       [] t = "SCHW" -> 18900 [] t = "CAT" -> 14700]

fetch_pe_from_local_data(ticker) ==
    IF ticker \in DOMAIN fallback_pe_ratios THEN fallback_pe_ratios[ticker] ELSE 0

\* sorted(data)
Sorted(s) == SortSeq(s, LAMBDA a, b : a < b)

RECURSIVE SumSeq(_)
SumSeq(s) == IF s = <<>> THEN 0 ELSE Head(s) + SumSeq(Tail(s))

\* statistics.quantiles(data, n=4)[i-1], method 'exclusive', times 4
interpolate_x4(sorted, j, delta) == sorted[j] * (4 - delta) + sorted[j + 1] * delta

quartile_of_sorted_x4(sorted, i, j) ==
    interpolate_x4(sorted, j, i * (Len(sorted) + 1) - j * 4)

\* a faulty variant, for sensitivity: the 'inclusive' method of statistics.quantiles
quartile_x4_inclusive(data, i) ==
    interpolate_x4(Sorted(data), (i * (Len(data) - 1)) \div 4 + 1,
                   (i * (Len(data) - 1)) % 4)

quartile_x4(data, i) ==
    quartile_of_sorted_x4(Sorted(data), i,
                          Max(1, Min((i * (Len(data) + 1)) \div 4, Len(data) - 1)))

\* the list after the IQR outlier filter of aggregate_pe_ratios
\* lower_bound = q1 - 1.5*iqr and upper_bound = q3 + 1.5*iqr, times 8
within_bounds(pe_ratios, q1, q3) ==
    SelectSeq(pe_ratios,
              LAMBDA pe : 5 * q1 - 3 * q3 <= 8 * pe /\ 8 * pe <= 5 * q3 - 3 * q1)

nonempty_or(filtered, pe_ratios) == IF filtered # <<>> THEN filtered ELSE pe_ratios

iqr_filtered(pe_ratios) ==
    IF Len(pe_ratios) >= 3
    THEN nonempty_or(within_bounds(pe_ratios, quartile_x4(pe_ratios, 1),
                                   quartile_x4(pe_ratios, 3)),
                     pe_ratios)
    ELSE pe_ratios

\* 2 * statistics.median(data)
median_of_sorted_x2(sorted, n) ==
    IF n % 2 = 1 THEN 2 * sorted[(n + 1) \div 2]
    ELSE sorted[n \div 2] + sorted[n \div 2 + 1]

median_x2(data) == median_of_sorted_x2(Sorted(data), Len(data))

\* a faulty variant, for sensitivity: the two weights exchanged
blend_mean_weighted(rs) ==
    IF Len(rs) = 1 THEN rs[1]
    ELSE IF Len(rs) = 2 THEN SumSeq(rs) \div 2
    ELSE (2 * median_x2(rs) * Len(rs) + 6 * SumSeq(rs)) \div (10 * Len(rs))

\* the blend of aggregate_pe_ratios over the filtered list
blend(rs) ==
    IF Len(rs) = 1 THEN rs[1]
    ELSE IF Len(rs) = 2 THEN SumSeq(rs) \div 2
    ELSE \* 0.6 * median + 0.4 * mean
         (3 * median_x2(rs) * Len(rs) + 4 * SumSeq(rs)) \div (10 * Len(rs))

aggregate_pe_ratios(pe_ratios) ==
    IF pe_ratios = <<>> THEN 0 ELSE blend(iqr_filtered(pe_ratios))

\* a faulty variant, for sensitivity: the filter applied to the caller's list in place
caller_list_filtered_in_place(pe_ratios) == iqr_filtered(pe_ratios)

\* the caller's list once aggregate_pe_ratios has returned: line 455 rebinds
\* the local name to the new filtered list, and quantiles, median and mean
\* work on sorted copies, so the list object passed in is left as it was
caller_list_after(pe_ratios) == pe_ratios

\* a faulty variant, for sensitivity: the bounds forgotten
clamp_pe_unbounded(x) == x

\* max(self.min_pe_ratio, min(x, self.max_pe_ratio))
clamp_pe(x) == Max(min_pe_ratio, Min(x, max_pe_ratio))

\* the part of fetch_pe_ratio_multi_source after the cache miss: the answers
\* of the configured sources, in order, the falsy ones dropped
collected_pe_ratios(ticker, yf) ==
    SelectSeq(<<fetch_pe_from_yfinance(yf), fetch_pe_from_local_data(ticker)>>,
              LAMBDA pe : pe # 0)

\* the conservative P/E of a list of source answers; 0 (None) when the list
\* is empty or the aggregate is falsy
\* a faulty variant, for sensitivity: the 0.85 discount left out
conservative_adjustment_undiscounted(aggregated_pe) ==
    IF aggregated_pe # 0 THEN clamp_pe(aggregated_pe) ELSE 0

conservative_adjustment(aggregated_pe) ==
    IF aggregated_pe # 0
    THEN clamp_pe((aggregated_pe * pe_conservative_factor) \div 100)
    ELSE 0

conservative_pe_of(pe_ratios) == conservative_adjustment(aggregate_pe_ratios(pe_ratios))

\* fetch_pe_ratio_multi_source as one sequential call on cache c:
\* the value returned, the cache afterwards, the number of sources queried
\* a faulty variant, for sensitivity: the lower bound cached when no source answered
cache_and_return_always(c, ticker, conservative_pe) ==
    [ret |-> conservative_pe,
     cache |-> [c EXCEPT ![ticker] = Max(conservative_pe, min_pe_ratio)],
     queried |-> 2]

cache_and_return(c, ticker, conservative_pe) ==
    [ret |-> conservative_pe,
     cache |-> IF conservative_pe # 0 THEN [c EXCEPT ![ticker] = conservative_pe] ELSE c,
     queried |-> 2]

fetch_pe_ratio_multi_source(c, ticker, yf) ==
    IF c[ticker] # 0
    THEN [ret |-> c[ticker], cache |-> c, queried |-> 0]
    ELSE cache_and_return(c, ticker, conservative_pe_of(collected_pe_ratios(ticker, yf)))

\* a faulty variant, for sensitivity: the two middle thresholds inclusive
size_adjusted_pe_inclusive(industry_pe, market_cap) ==
    IF market_cap > 500000 THEN (industry_pe * 95) \div 100
    ELSE IF market_cap >= 100000 THEN (industry_pe * 98) \div 100
    ELSE IF market_cap <= 10000 THEN (industry_pe * 85) \div 100
    ELSE (industry_pe * 92) \div 100

\* the size-adjusted sector default; market_cap in millions of dollars
size_adjusted_pe(industry_pe, market_cap) ==
    IF market_cap > 500000 THEN (industry_pe * 95) \div 100
    ELSE IF market_cap > 100000 THEN (industry_pe * 98) \div 100
    ELSE IF market_cap < 10000 THEN (industry_pe * 85) \div 100
    ELSE (industry_pe * 92) \div 100

\* the part of get_conservative_pe_estimate after the multi-source fetch;
\* multi_source_pe = 0 and market_cap = 0 are the falsy cases
\* lines 540-561: the list of estimates
pe_estimates_of(multi_source_pe, industry_pe, market_cap) ==
    (IF multi_source_pe # 0 THEN <<multi_source_pe>> ELSE <<>>)
    \o <<industry_pe>>
    \o (IF market_cap # 0 THEN <<size_adjusted_pe(industry_pe, market_cap)>> ELSE <<>>)

\* a faulty variant, for sensitivity: the largest estimate
final_pe_of_largest(pe_estimates) == Sorted(pe_estimates)[Len(pe_estimates)]

\* a faulty variant, for sensitivity: the element below the middle
final_pe_of_lower(pe_estimates) ==
    IF Len(pe_estimates) >= 2
    THEN Sorted(pe_estimates)[(Len(pe_estimates) + 1) \div 2]
    ELSE pe_estimates[1]

\* lines 563-568: sort, then the element at index len // 2
final_pe_of(pe_estimates) ==
    IF Len(pe_estimates) >= 2
    THEN Sorted(pe_estimates)[Len(pe_estimates) \div 2 + 1]
    ELSE pe_estimates[1]

conservative_estimate(multi_source_pe, sector, market_cap) ==
    clamp_pe(final_pe_of(pe_estimates_of(multi_source_pe, industry_pe_of(sector),
                                         market_cap)))

\* get_conservative_pe_estimate as one sequential call on cache c
estimate_after_fetch(f, sector, market_cap) ==
    [ret |-> conservative_estimate(f.ret, sector, market_cap),
     multi |-> f.ret, cache |-> f.cache, queried |-> f.queried]

get_conservative_pe_estimate(c, ticker, sector, market_cap, yf) ==
    estimate_after_fetch(fetch_pe_ratio_multi_source(c, ticker, yf), sector, market_cap)

----------------------------------------------------------------------------
(* Raw data normalizer: fetch_stock_data.                                  *)
(* A snapshot is what the provider gave: raises (the download or the info  *)
(* call raised), close (the last realized close of the quote data) and the *)
(* fields of the info dictionary.  Totals (cash flows, market cap) and     *)
(* share counts are in millions; per-share money is in 1/1000 dollar.      *)

Str(x) == [k |-> "str", s |-> x]

\* lines 637-649: the current price, still a raw value
raw_current_price(snap) ==
    LET from_close ==
            IF snap.close.k = "num" THEN snap.close ELSE None
    IN  IF from_close.k = "none" \/ from_close.v = 0
        THEN Get(snap.currentPrice,
                 Get(snap.regularMarketPrice, Get(snap.previousClose, Num(100000))))
        ELSE from_close

\* lines 651-668: FCF per share; current_price is a number here
fcf_per_share_of(snap, current_price) ==
    LET free_cash_flow == Get(snap.freeCashflow, Get(snap.operatingCashflow, Num(0)))
        shares_outstanding ==
            Get(snap.sharesOutstanding, Get(snap.impliedSharesOutstanding, Num(1000)))
        fallback == Max(2000, (current_price * 5) \div 100)
    IN  IF free_cash_flow.k = "bad" \/ shares_outstanding.k = "bad"
        THEN fallback          \* float() raised ValueError
        ELSE LET fcf_value == IF free_cash_flow.k = "none" THEN 0 ELSE free_cash_flow.v
                 shares_value ==
                     IF shares_outstanding.k = "none" THEN 0 ELSE shares_outstanding.v
             IN  IF fcf_value # 0 /\ shares_value # 0 /\ shares_value > 0
                 THEN IF fcf_value >= 0
                      THEN (fcf_value * 1000) \div shares_value
                      ELSE -(((-fcf_value) * 1000) \div shares_value)
                 ELSE fallback

\* lines 670-676: EPS.  dict.get evaluates its default first, so the chain
\* is resolved from the outermost key that is present.
eps_of(snap, current_price) ==
    LET fallback == Max(1000, (current_price * 3) \div 100)
        eps_raw == Get(snap.trailingEps,
                       Get(snap.forwardEps, Get(snap.dilutedEPS, Num(fallback))))
    IN  IF eps_raw.k = "num" THEN eps_raw.v ELSE fallback

\* lines 678-684: book value per share
book_value_of(snap, current_price) ==
    LET fallback == Max(5000, (current_price * 20) \div 100)
        book_value_raw == Get(snap.bookValue,
                              Get(snap.tangibleBookValue, Num(fallback)))
    IN  IF book_value_raw.k = "num" THEN book_value_raw.v ELSE fallback

\* line 687: the sector; a None sector is the string "None" here, which no
\* table lists
sector_of(snap) ==
    IF snap.sector.k = "absent" THEN "Default"
    ELSE IF snap.sector.k = "str" THEN snap.sector.s ELSE "None"

\* lines 689-695: the growth rate, in 1/1000
growth_rate_of(snap) ==
    LET earnings_growth_raw == Get(snap.earningsGrowth, Get(snap.revenueGrowth, Num(50)))
    IN  IF earnings_growth_raw.k = "bad" THEN 50
        ELSE LET earnings_growth ==
                     IF earnings_growth_raw.k = "none" THEN 50 ELSE earnings_growth_raw.v
             IN  IF earnings_growth # 0
                 THEN Min(Abs(earnings_growth), max_growth_rate) ELSE 50

\* lines 608-695: everything fetch_stock_data does before it asks for the
\* P/E.  ok = FALSE when an exception reaches the outer handler: the provider
\* call raised, or the current price is not a number (the arithmetic on it
\* raises TypeError in a try block and again in its handler).
\* line 705: float(eps) if eps else 1.0
eps_or_one(e) == IF e # 0 THEN e ELSE 1000

fields_at_price(ticker, snap, cp) ==
    IF snap.raises \/ cp.k # "num"
    THEN [ok |-> FALSE]
    ELSE [ok |-> TRUE,
          ticker |-> ticker,
          current_price |-> cp.v,
          fcf_per_share |-> fcf_per_share_of(snap, cp.v),
          eps |-> eps_or_one(eps_of(snap, cp.v)),
          book_value |-> book_value_of(snap, cp.v),
          sector |-> sector_of(snap),
          growth_rate |-> growth_rate_of(snap),
          market_cap |-> Get(snap.marketCap, Num(1000)),
          company_name |-> Get(snap.longName, Str(ticker))]

extract_fields(ticker, snap) == fields_at_price(ticker, snap, raw_current_price(snap))

\* line 698: the market cap handed to get_conservative_pe_estimate,
\* info.get('marketCap'); 0 is the falsy case (absent, None, zero)
market_cap_arg(snap) == IF snap.marketCap.k = "num" THEN snap.marketCap.v ELSE 0

\* a market cap of unusable type makes the size comparison of
\* get_conservative_pe_estimate raise TypeError, after the multi-source fetch
market_cap_raises(snap) == snap.marketCap.k = "bad"

\* lines 700-711: the record returned on the live path
live_record(fields, pe_ratio) ==
    [ticker |-> fields.ticker, current_price |-> fields.current_price,
     fcf_per_share |-> fields.fcf_per_share, eps |-> fields.eps,
     book_value |-> fields.book_value, sector |-> fields.sector,
     growth_rate |-> fields.growth_rate, pe_ratio |-> pe_ratio,
     market_cap |-> fields.market_cap, company_name |-> fields.company_name]

\* a faulty variant, for sensitivity: the default growth of the live path
synthetic_record_default_growth(ticker, fallback_pe) ==
    [ticker |-> ticker, current_price |-> 150000, fcf_per_share |-> 8000,
     eps |-> 4000, book_value |-> 25000, sector |-> "Technology",
     growth_rate |-> 50, pe_ratio |-> fallback_pe,
     market_cap |-> Num(150000), company_name |-> Str(ticker)]

\* lines 713-732: the synthetic record of the outer handler
synthetic_record(ticker, fallback_pe) ==
    [ticker |-> ticker, current_price |-> 150000, fcf_per_share |-> 8000,
     eps |-> 4000, book_value |-> 25000, sector |-> "Technology",
     growth_rate |-> 60, pe_ratio |-> fallback_pe,
     market_cap |-> Num(150000), company_name |-> Str(ticker)]

----------------------------------------------------------------------------
(* Valuation calculator *)

\* fcf_per_share * ((1 + growth_rate) ** year)
RECURSIVE projected_fcf(_, _, _)
projected_fcf(f, g, year) ==
    IF year = 0 THEN f
    ELSE (projected_fcf(f, g, year - 1) * (1000 + g)) \div 1000

\* x / ((1 + discount_rate) ** n)
RECURSIVE present_value(_, _)
present_value(x, n) ==
    IF n = 0 THEN x
    ELSE (present_value(x, n - 1) * 100) \div (100 + discount_rate)

RECURSIVE pv_fcf_sum(_, _, _)
pv_fcf_sum(f, g, n) ==
    IF n = 0 THEN 0
    ELSE pv_fcf_sum(f, g, n - 1) + present_value(projected_fcf(f, g, n), n)

\* a faulty variant, for sensitivity: a non-positive FCF taken as it is
dcf_unfloored_raw_fcf(sd) ==
    LET f == sd.fcf_per_share
        g == sd.growth_rate
        pv_fcf == pv_fcf_sum(f, g, 5)
        terminal_fcf == (projected_fcf(f, g, 5) * (100 + terminal_growth_rate)) \div 100
        terminal_value == (terminal_fcf * 100) \div (discount_rate - terminal_growth_rate)
        pv_terminal_value == present_value(terminal_value, 5)
    IN  pv_fcf + pv_terminal_value

\* the value calculate_dcf_value computes before the book-value floor
dcf_unfloored(sd) ==
    LET f == IF sd.fcf_per_share <= 0 THEN 2000 ELSE sd.fcf_per_share
        g == sd.growth_rate
        pv_fcf == pv_fcf_sum(f, g, 5)
        terminal_fcf == (projected_fcf(f, g, 5) * (100 + terminal_growth_rate)) \div 100
        terminal_value == (terminal_fcf * 100) \div (discount_rate - terminal_growth_rate)
        pv_terminal_value == present_value(terminal_value, 5)
    IN  pv_fcf + pv_terminal_value

calculate_dcf_value(sd) == Max(dcf_unfloored(sd), sd.book_value)

\* eps * pe_ratio, both in 1/1000, the product in 1/1000
times_pe(eps, pe) == eps * (pe \div 1000) + (eps * (pe % 1000)) \div 1000

calculate_comps_value(sd) ==
    LET pe  == IF sd.pe_ratio = 0 THEN industry_pe_of(sd.sector) ELSE sd.pe_ratio
        eps == IF sd.eps <= 0 THEN 1000 ELSE sd.eps
    IN  Max(times_pe(eps, pe), sd.book_value)

\* a faulty variant, for sensitivity: the two weights exchanged
calculate_fair_value_swapped(sd) ==
    Max((calculate_dcf_value(sd) * comps_weight
         + calculate_comps_value(sd) * dcf_weight) \div 10, sd.book_value)

calculate_fair_value(sd) ==
    Max((calculate_dcf_value(sd) * dcf_weight
         + calculate_comps_value(sd) * comps_weight) \div 10, sd.book_value)

\* a faulty variant, for sensitivity: <= for <
determine_status_le(fv, current_price) ==
    IF current_price <= fv THEN "Underpriced" ELSE "Overpriced"

determine_status(fv, current_price) ==
    IF current_price < fv THEN "Underpriced" ELSE "Overpriced"

----------------------------------------------------------------------------
(* SpecCalc: calculate_fair_value applied to one record drawn from a grid *)

MaxBookSteps == 3
BookValues == {-10000} \cup {k * 25000 : k \in 0..MaxBookSteps}
FcfValues == {-5000, 0, 2000, 8000}
EpsValues == {-1000, 0, 4000}
GrowthValues == {0, 50, max_growth_rate}
PeValues == {0, min_pe_ratio, 18700, max_pe_ratio}
CalcSectors == {"Technology", "Unlisted"}

CalcRecords ==
    [fcf_per_share : FcfValues, eps : EpsValues, growth_rate : GrowthValues,
     pe_ratio : PeValues, book_value : BookValues, sector : CalcSectors,
     current_price : {150000}]

CalcInit ==
    /\ stock_data \in CalcRecords
    /\ dcf_value = 0
    /\ comps_value = 0
    /\ fair_value = 0
    /\ calc_pc = "input"
    /\ PeIdle
    /\ AggIdle
    /\ FetchIdle
    /\ OrchIdle
    /\ DisplayIdle

CalculateFairValue ==
    /\ calc_pc = "input"
    /\ dcf_value' = calculate_dcf_value(stock_data)
    /\ comps_value' = calculate_comps_value(stock_data)
    /\ fair_value' = calculate_fair_value(stock_data)
    /\ calc_pc' = "done"
    /\ UNCHANGED stock_data

CalcNext == CalculateFairValue /\ UNCHANGED <<peVars, aggVars, fetchVars, orchVars, displayVars>>

SpecCalc == CalcInit /\ [][CalcNext]_vars

----------------------------------------------------------------------------
(* SpecPE: get_conservative_pe_estimate called again and again by one      *)
(* caller, each call with any ticker, sector, market cap and source answer *)

MaxYfStep == 3
YfNumbers == {-5000, 4000, 18000} \cup {k * 50000 : k \in 0..MaxYfStep}
NoYf == [raises |-> FALSE, trailingPE |-> Absent, forwardPE |-> Absent,
         priceToEarningsRatio |-> Absent]
YfRaises == [NoYf EXCEPT !.raises = TRUE]
YfAnswers ==
    {YfRaises}
    \cup {[NoYf EXCEPT !.trailingPE = x] :
             x \in {Absent, None, Bad} \cup {Num(n) : n \in YfNumbers}}
    \cup {[NoYf EXCEPT !.trailingPE = x, !.forwardPE = y, !.priceToEarningsRatio = z] :
             x \in {Absent, Bad, Num(150000)}, y \in {None, Num(30000)},
             z \in {Absent, Num(12000)}}

PeTickers == {"NVDA", "ZZZZ"}
PeSectors == {"Technology", "Financial Services", "Unlisted"}
\* market caps in millions of dollars; 0 is an absent, None or zero market cap
MarketCaps == {0, 5000, 10000, 100000, 500000, 600000}

PeInit ==
    /\ pe_ratio_cache = [t \in PeTickers |-> 0]
    /\ pe_call = [made |-> FALSE, ticker |-> "ZZZZ", sector |-> "Default",
                  market_cap |-> 0, cached_before |-> 0, ret |-> 0, multi |-> 0,
                  queried |-> 0, collected |-> <<>>, industry |-> 0, adjusted |-> 0]
    /\ CalcIdle
    /\ AggIdle
    /\ FetchIdle
    /\ OrchIdle
    /\ DisplayIdle

\* the state once the call has returned r.  collected is the list the
\* sources filled (empty on a cache hit, when none is asked), industry and
\* adjusted are the two locals industry_pe and size_adjusted_pe (0: not set)
Estimated(t, sec, mc, yf, r) ==
    /\ pe_ratio_cache' = r.cache
    /\ pe_call' = [made |-> TRUE, ticker |-> t, sector |-> sec,
                   market_cap |-> mc, cached_before |-> pe_ratio_cache[t],
                   ret |-> r.ret, multi |-> r.multi, queried |-> r.queried,
                   collected |-> IF r.queried = 0 THEN <<>>
                                 ELSE collected_pe_ratios(t, yf),
                   industry |-> industry_pe_of(sec),
                   adjusted |-> IF mc # 0
                                THEN size_adjusted_pe(industry_pe_of(sec), mc) ELSE 0]

GetConservativePeEstimate(t, sec, mc, yf) ==
    Estimated(t, sec, mc, yf,
              get_conservative_pe_estimate(pe_ratio_cache, t, sec, mc, yf))

PeNext ==
    /\ \E t \in PeTickers, sec \in PeSectors, mc \in MarketCaps, yf \in YfAnswers :
           GetConservativePeEstimate(t, sec, mc, yf)
    /\ UNCHANGED <<calcVars, aggVars, fetchVars, orchVars, displayVars>>

SpecPE == PeInit /\ [][PeNext]_vars

----------------------------------------------------------------------------
(* process_stock: the pipeline of one ticker, run by a worker of the pool. *)
(* Its steps end where it waits for the network:                           *)
(*   fetch     the provider call, the local field extraction and the cache *)
(*             lookup of fetch_pe_ratio_multi_source that follows at once  *)
(*   pe_query  after a cache miss: the source queries, the cache write and *)
(*             the rest of fetch_stock_data                                *)
(*   valuate   calculate_fair_value, determine_status, the result          *)

\* f"${x:.2f}": money in 1/1000 rounded to cents
format_cents(x) == IF x >= 0 THEN (x + 5) \div 10 ELSE -((5 - x) \div 10)

\* lines 861-881: the result of a pipeline that did not raise
valuation_result(ticker, rec) ==
    LET fv == calculate_fair_value(rec)
        price_difference == fv - rec.current_price
    IN  [Ticker |-> ticker,
         FairValue |-> format_cents(fv),
         CurrentPrice |-> format_cents(rec.current_price),
         PriceDifference |-> format_cents(price_difference),
         BookValue |-> format_cents(rec.book_value),
         Status |-> determine_status(fv, rec.current_price),
         Price_Difference_Raw |-> price_difference]

\* a faulty variant, for sensitivity: the handler forgets the Error status
error_result_overpriced(ticker) ==
    [Ticker |-> ticker, FairValue |-> 0, CurrentPrice |-> 0, PriceDifference |-> 0,
     BookValue |-> 0, Status |-> "Overpriced", Price_Difference_Raw |-> 0]

\* lines 883-894 (and 936-944): the fallback result
error_result(ticker) ==
    [Ticker |-> ticker, FairValue |-> 0, CurrentPrice |-> 0, PriceDifference |-> 0,
     BookValue |-> 0, Status |-> "Error", Price_Difference_Raw |-> 0]

\* a future as executor.submit leaves it
new_future(ticker) ==
    [ticker |-> ticker, state |-> "pending", step |-> "none",
     fetched |-> Unused, synthetic |-> FALSE,
     rec |-> Unused, failed |-> FALSE, result |-> Unused,
     elapsed |-> 0, overran |-> FALSE]

Futures == 1..Len(fut)
Running == {i \in Futures : fut[i].state = "running"}
Pending == {i \in Futures : fut[i].state = "pending"}
Finished == {i \in Futures : fut[i].state = "finished"}
Collected == {collected[k] : k \in 1..Len(collected)}

\* the per-ticker limit of future.result(timeout=60) and the batch limit of
\* as_completed(timeout=300)
per_stock_timeout == 60
batch_timeout == 300

\* the future, finished now with result r
finish(f, r, is_failed) ==
    [f EXCEPT !.state = "finished", !.step = "none", !.result = r,
              !.failed = is_failed, !.elapsed = 0,
              !.fetched = Unused, !.synthetic = FALSE,
              !.rec = IF is_failed THEN Unused ELSE f.rec,
              !.overran = (f.elapsed > per_stock_timeout)]

\* fetch_stock_data from a get_conservative_pe_estimate call on, on cache c:
\* the lookup (lines 483-484), on a hit the rest of the call (lines 544-576)
\* and the record (lines 700-711 or 721-732); on a miss the pipeline goes to
\* query the sources.  A market cap of unusable type raises after the
\* multi-source fetch, and the outer handler makes the call again.
RECURSIVE pe_lookup(_, _)
after_multi_source(f, c, multi_source_pe) ==
    IF ~f.synthetic /\ f.fetched.mc_raises
    THEN pe_lookup([f EXCEPT !.synthetic = TRUE], c)
    ELSE IF f.synthetic
    THEN [f EXCEPT !.step = "valuate", !.fetched = Unused,
             !.rec = synthetic_record(f.ticker,
                         conservative_estimate(multi_source_pe, "Technology", 150000))]
    ELSE [f EXCEPT !.step = "valuate", !.fetched = Unused,
             !.rec = live_record(f.fetched,
                         conservative_estimate(multi_source_pe, f.fetched.sector,
                                               f.fetched.mc_arg))]

pe_lookup(f, c) ==
    IF c[f.ticker] # 0
    THEN after_multi_source(f, c, c[f.ticker])
    ELSE [f EXCEPT !.step = "pe_query"]

----------------------------------------------------------------------------
(* Spec: run_valuation over a list of tickers with a pool of max_workers   *)

MaxTickers == 2
MaxWorkers == 2
TickStep == 100

OrchTickers == {"AAPL", "ZZZZ"}

LiveSnap ==
    [raises |-> FALSE, close |-> Num(150000),
     currentPrice |-> Absent, regularMarketPrice |-> Absent, previousClose |-> Absent,
     freeCashflow |-> Num(8000), operatingCashflow |-> Absent,
     sharesOutstanding |-> Num(1000), impliedSharesOutstanding |-> Absent,
     trailingEps |-> Num(4000), forwardEps |-> Absent, dilutedEPS |-> Absent,
     bookValue |-> Num(25000), tangibleBookValue |-> Absent,
     sector |-> Str("Technology"), earningsGrowth |-> Num(60),
     revenueGrowth |-> Absent, marketCap |-> Num(150000), longName |-> Str("Co")]
\* the same company quoted exactly at the fair value it gets with the
\* size-adjusted sector P/E
ParSnap ==
    [LiveSnap EXCEPT !.close =
        Num(calculate_fair_value(live_record(extract_fields("-", LiveSnap), 21560)))]
DownSnap == [LiveSnap EXCEPT !.raises = TRUE]
BadCapSnap == [LiveSnap EXCEPT !.marketCap = Bad]
OrchSnaps == {ParSnap, DownSnap, BadCapSnap}

OrchYf == {YfRaises, [NoYf EXCEPT !.trailingPE = Num(18000)]}

RECURSIVE SeqsUpTo(_, _)
SeqsUpTo(S, n) ==
    IF n = 0 THEN {<<>>}
    ELSE SeqsUpTo(S, n - 1)
         \cup {Append(q, x) : q \in {r \in SeqsUpTo(S, n - 1) : Len(r) = n - 1}, x \in S}

Init ==
    /\ fortune_500_tickers \in SeqsUpTo(OrchTickers, MaxTickers)
    /\ max_workers \in 1..MaxWorkers
    /\ pe_ratio_cache = [t \in OrchTickers |-> 0]
    /\ fut = <<>>
    /\ results = <<>>
    /\ collected = <<>>
    /\ pc = "submit"
    /\ clock = 0
    /\ end_time = 0
    /\ late = {}
    /\ pe_call = Unused
    /\ CalcIdle
    /\ AggIdle
    /\ FetchIdle
    /\ DisplayIdle

\* lines 920-922: executor.submit for the next ticker
Submit ==
    /\ pc = "submit"
    /\ Len(fut) < Len(fortune_500_tickers)
    /\ fut' = Append(fut, new_future(fortune_500_tickers[Len(fut) + 1]))
    /\ UNCHANGED <<calcVars, aggVars, fetchVars, displayVars, pe_call, fortune_500_tickers, max_workers, results, collected, pc, clock,
                   end_time, late, pe_ratio_cache>>

\* line 927: as_completed is entered and computes its deadline
EnterAsCompleted ==
    /\ pc = "submit"
    /\ Len(fut) = Len(fortune_500_tickers)
    /\ pc' = "collect"
    /\ end_time' = clock + batch_timeout
    /\ UNCHANGED <<calcVars, aggVars, fetchVars, displayVars, pe_call, fortune_500_tickers, max_workers, fut, results, collected, clock,
                   late, pe_ratio_cache>>

\* a faulty variant, for sensitivity: a pool that starts a thread for every submitted task
worker_available_unbounded == TRUE

\* ThreadPoolExecutor(max_workers): at most max_workers threads
worker_available == Cardinality(Running) < max_workers

\* a worker takes the oldest queued task and enters process_stock
Start(i) ==
    /\ i \in Pending
    /\ \A j \in Pending : i <= j
    /\ worker_available
    /\ fut' = [fut EXCEPT ![i].state = "running", ![i].step = "fetch"]
    /\ UNCHANGED <<calcVars, aggVars, fetchVars, displayVars, pe_call, fortune_500_tickers, max_workers, results, collected, pc, clock,
                   end_time, late, pe_ratio_cache>>

\* fetch_stock_data up to the cache lookup, on the snapshot the provider gave
FetchData(i, snap) ==
    /\ i \in Running
    /\ fut[i].step = "fetch"
    /\ LET fields == extract_fields(fut[i].ticker, snap)
           f == [fut[i] EXCEPT
                    !.synthetic = ~fields.ok,
                    !.fetched = IF fields.ok
                                THEN fields @@ [mc_arg |-> market_cap_arg(snap),
                                                mc_raises |-> market_cap_raises(snap)]
                                ELSE fields]
       IN  fut' = [fut EXCEPT ![i] = pe_lookup(f, pe_ratio_cache)]
    /\ UNCHANGED <<calcVars, aggVars, fetchVars, displayVars, pe_call, fortune_500_tickers, max_workers, results, collected, pc, clock,
                   end_time, late, pe_ratio_cache>>

\* the state once the queries of future i have given q
Queried(i, q) ==
    /\ pe_ratio_cache' = q.cache
    /\ fut' = [fut EXCEPT ![i] = after_multi_source(fut[i], q.cache, q.ret)]

\* lines 486-526: the sources are queried and the cache is written
PeQuery(i, yf) ==
    /\ i \in Running
    /\ fut[i].step = "pe_query"
    /\ Queried(i, cache_and_return(pe_ratio_cache, fut[i].ticker,
                   conservative_pe_of(collected_pe_ratios(fut[i].ticker, yf))))
    /\ UNCHANGED <<calcVars, aggVars, fetchVars, displayVars, pe_call, fortune_500_tickers, max_workers, results, collected, pc, clock,
                   end_time, late>>

\* lines 861-881: the valuation; the future is done
Valuate(i) ==
    /\ i \in Running
    /\ fut[i].step = "valuate"
    /\ fut' = [fut EXCEPT ![i] =
                 finish(fut[i], valuation_result(fut[i].ticker, fut[i].rec), FALSE)]
    /\ UNCHANGED <<calcVars, aggVars, fetchVars, displayVars, pe_call, fortune_500_tickers, max_workers, results, collected, pc, clock,
                   end_time, late, pe_ratio_cache>>

\* lines 883-894: an exception inside the try block of process_stock
PipelineRaises(i) ==
    /\ i \in Running
    /\ fut' = [fut EXCEPT ![i] = finish(fut[i], error_result(fut[i].ticker), TRUE)]
    /\ UNCHANGED <<calcVars, aggVars, fetchVars, displayVars, pe_call, fortune_500_tickers, max_workers, results, collected, pc, clock,
                   end_time, late, pe_ratio_cache>>

\* a faulty variant, for sensitivity: results kept by ticker, a repeated ticker replaces nothing
append_result_by_ticker(rs, r) ==
    IF \E k \in 1..Len(rs) : rs[k].Ticker = r.Ticker THEN rs ELSE Append(rs, r)

\* results.append(result)
append_result(rs, r) == Append(rs, r)

\* lines 927-945: as_completed yields a finished future; future.result
\* returns at once, since the future is done
Collect(i) ==
    /\ pc = "collect"
    /\ i \in Finished \ Collected
    /\ results' = append_result(results, fut[i].result)
    /\ collected' = Append(collected, i)
    /\ UNCHANGED <<calcVars, aggVars, fetchVars, displayVars, pe_call, fortune_500_tickers, max_workers, fut, pc, clock, end_time, late,
                   pe_ratio_cache>>

\* as_completed: futures are outstanding after the deadline; TimeoutError
\* leaves the for loop, and the with block waits for the pool to shut down
BatchTimeout ==
    /\ pc = "collect"
    /\ Futures \ Collected # {}
    /\ clock > end_time
    /\ pc' = "shutdown"
    /\ late' = Futures \ Collected
    /\ UNCHANGED <<calcVars, aggVars, fetchVars, displayVars, pe_call, fortune_500_tickers, max_workers, fut, results, collected, clock,
                   end_time, pe_ratio_cache>>

\* executor.__exit__ returned: every task has run; the TimeoutError reaches
\* the caller of run_valuation
Propagate ==
    /\ pc = "shutdown"
    /\ Finished = Futures
    /\ pc' = "raised"
    /\ UNCHANGED <<calcVars, aggVars, fetchVars, displayVars, pe_call, fortune_500_tickers, max_workers, fut, results, collected, clock,
                   end_time, late, pe_ratio_cache>>

\* lines 947-963: every future was collected; results is returned
Return ==
    /\ pc = "collect"
    /\ Collected = Futures
    /\ pc' = "returned"
    /\ UNCHANGED <<calcVars, aggVars, fetchVars, displayVars, pe_call, fortune_500_tickers, max_workers, fut, results, collected, clock,
                   end_time, late, pe_ratio_cache>>

\* time passes while as_completed waits: nothing is ready to be collected,
\* the deadline has not passed yet, and no idle worker has a task to take
Tick ==
    /\ pc = "collect"
    /\ Finished \ Collected = {}
    /\ clock <= end_time
    /\ Running # {}
    /\ ~(Pending # {} /\ worker_available)
    /\ clock' = clock + TickStep
    \* the time a running pipeline has taken, followed until it is past the
    \* per-ticker limit
    /\ fut' = [i \in Futures |->
                 IF fut[i].state = "running"
                 THEN [fut[i] EXCEPT !.elapsed =
                          Min(@ + TickStep, per_stock_timeout + 1)]
                 ELSE fut[i]]
    /\ UNCHANGED <<calcVars, aggVars, fetchVars, displayVars, pe_call, fortune_500_tickers, max_workers, results, collected, pc,
                   end_time, late, pe_ratio_cache>>

Next ==
    \/ Submit
    \/ EnterAsCompleted
    \/ \E i \in Futures : Start(i)
    \/ \E i \in Futures, snap \in OrchSnaps : FetchData(i, snap)
    \/ \E i \in Futures, yf \in OrchYf : PeQuery(i, yf)
    \/ \E i \in Futures : Valuate(i)
    \/ \E i \in Futures : PipelineRaises(i)
    \/ \E i \in Futures : Collect(i)
    \/ BatchTimeout
    \/ Propagate
    \/ Return
    \/ Tick

Spec == Init /\ [][Next]_vars

----------------------------------------------------------------------------
(* SpecFetch: one fetch_stock_data call on any ticker, any snapshot of the *)
(* grid, any source answer, with the P/E of the ticker cached or not.      *)

\* fetch_stock_data as one sequential call on cache c.  The live path asks
\* for the P/E last (line 698); when that call raises on a market cap of
\* unusable type the sources were already queried and the cache written, and
\* the outer handler asks again (line 720).  The sources answer yf both times.
synthetic_return(ticker, handler) ==
    [rec |-> synthetic_record(ticker, handler.ret), cache |-> handler.cache,
     synthetic |-> TRUE]

live_return(c, ticker, snap, yf, fields, live) ==
    IF ~market_cap_raises(snap)
    THEN [rec |-> live_record(fields, live.ret), cache |-> live.cache,
          synthetic |-> FALSE]
    ELSE synthetic_return(ticker,
             get_conservative_pe_estimate(live.cache, ticker, "Technology", 150000, yf))

after_extraction(c, ticker, snap, yf, fields) ==
    IF fields.ok
    THEN live_return(c, ticker, snap, yf, fields,
             get_conservative_pe_estimate(c, ticker, fields.sector,
                                          market_cap_arg(snap), yf))
    ELSE synthetic_return(ticker,
             get_conservative_pe_estimate(c, ticker, "Technology", 150000, yf))

fetch_stock_data(c, ticker, snap, yf) ==
    after_extraction(c, ticker, snap, yf, extract_fields(ticker, snap))

MaxPriceSteps == 2

\* a company whose snapshot differs from the synthetic record in every field
FetchBase ==
    [LiveSnap EXCEPT !.sector = Str("Healthcare"), !.earningsGrowth = Num(30),
                     !.bookValue = Num(30000), !.trailingEps = Num(6000),
                     !.freeCashflow = Num(4000), !.marketCap = Num(200000)]

\* the last close of the quote data: a price, zero, or no usable row
CloseValues == {Num(150000), Num(0), None}
PriceValues ==
    {Absent, None, Bad, Num(-5000)} \cup {Num(k * 60000) : k \in 0..MaxPriceSteps}
FieldValues(neg, pos) == {Absent, None, Bad, Num(0), Num(neg), Num(pos)}

PricedSnaps ==
    {[FetchBase EXCEPT !.close = cl, !.currentPrice = p] :
        cl \in CloseValues, p \in PriceValues}

FetchSnaps ==
    {[FetchBase EXCEPT !.raises = TRUE]}
    \cup {[s EXCEPT !.bookValue = x] : s \in PricedSnaps, x \in FieldValues(-3000, 30000)}
    \cup {[s EXCEPT !.marketCap = x] : s \in PricedSnaps, x \in FieldValues(-1, 200000)}
    \cup {[s EXCEPT !.trailingEps = x] : s \in PricedSnaps, x \in FieldValues(-2000, 6000)}
    \cup {[s EXCEPT !.freeCashflow = x] : s \in PricedSnaps, x \in FieldValues(-500, 4000)}
    \cup {[s EXCEPT !.earningsGrowth = x] : s \in PricedSnaps, x \in FieldValues(-200, 30)}
    \cup {[s EXCEPT !.sector = x] : s \in PricedSnaps, x \in {Absent, None}}
    \cup {[FetchBase EXCEPT !.close = None, !.regularMarketPrice = x, !.previousClose = y] :
             x \in PriceValues, y \in {Absent, Num(80000)}}
    \cup {[FetchBase EXCEPT !.close = cl, !.freeCashflow = x, !.operatingCashflow = y,
                            !.sharesOutstanding = z] :
             cl \in {Num(150000), Num(200000)}, x \in FieldValues(-500, 4000),
             y \in {Absent, Num(6000)}, z \in FieldValues(-1000, 1000)}
    \cup {[FetchBase EXCEPT !.trailingEps = x, !.forwardEps = y, !.dilutedEPS = z] :
             x \in FieldValues(-2000, 6000), y \in {Absent, None, Num(5000)},
             z \in {Absent, Num(7000)}}

\* the cache before the call: empty, or holding what an earlier call cached
FetchCaches ==
    {[t \in OrchTickers |-> 0], [t \in OrchTickers |-> IF t = "AAPL" THEN 17935 ELSE 0]}

FetchInit ==
    /\ pe_ratio_cache \in FetchCaches
    /\ fetch_call \in [made : {FALSE}, ticker : OrchTickers, snap : FetchSnaps,
                        yf : OrchYf]
    /\ pe_call = Unused
    /\ CalcIdle
    /\ AggIdle
    /\ OrchIdle
    /\ DisplayIdle

\* the state once the call has returned r
Returned(r) ==
    /\ pe_ratio_cache' = r.cache
    /\ fetch_call' = [made |-> TRUE, ticker |-> fetch_call.ticker,
                      snap |-> fetch_call.snap, yf |-> fetch_call.yf,
                      rec |-> r.rec, synthetic |-> r.synthetic]

FetchStockData ==
    /\ ~fetch_call.made
    /\ Returned(fetch_stock_data(pe_ratio_cache, fetch_call.ticker, fetch_call.snap,
                                 fetch_call.yf))

FetchNext == FetchStockData /\ UNCHANGED <<calcVars, aggVars, pe_call, orchVars, displayVars>>

SpecFetch == FetchInit /\ [][FetchNext]_vars

----------------------------------------------------------------------------
(* SpecAgg: aggregate_pe_ratios called twice in a row by one caller on one *)
(* list object, the list drawn from a grid of raw ratios.                  *)

MaxShort == 4
MaxRatios == 6

\* any short list of distinct-looking ratios, and longer lists of a crowd
\* around 10 with strays at 100 (the filter needs six values to reject one)
RatioValues == {10000, 11000, 12000, 20000, 24000, 100000}
SpreadValues == {10000, 100000}
AggLists == SeqsUpTo(RatioValues, MaxShort) \cup SeqsUpTo(SpreadValues, MaxRatios)

AggInit ==
    /\ agg_call \in [calls : {0}, input : AggLists]
    /\ CalcIdle
    /\ PeIdle
    /\ FetchIdle
    /\ OrchIdle
    /\ DisplayIdle

\* the first call; kept is the local list the blend is computed from
AggregateFirst ==
    /\ agg_call.calls = 0
    /\ agg_call' = [calls |-> 1, input |-> agg_call.input,
                    list |-> caller_list_after(agg_call.input),
                    kept |-> iqr_filtered(agg_call.input),
                    ret |-> aggregate_pe_ratios(agg_call.input)]
    /\ UNCHANGED <<calcVars, peVars, fetchVars, orchVars, displayVars>>

\* the second call, on the same list object
AggregateAgain ==
    /\ agg_call.calls = 1
    /\ agg_call' = [calls |-> 2, input |-> agg_call.input,
                    list |-> caller_list_after(agg_call.list),
                    kept |-> agg_call.kept,
                    ret |-> agg_call.ret,
                    ret_again |-> aggregate_pe_ratios(agg_call.list)]
    /\ UNCHANGED <<calcVars, peVars, fetchVars, orchVars, displayVars>>

AggNext == AggregateFirst \/ AggregateAgain

SpecAgg == AggInit /\ [][AggNext]_vars

----------------------------------------------------------------------------
(* display_results: the ordering of the table and the summary counts.      *)

\* str < str of lines 985-996, on the tickers displayed: the position of
\* the ticker in code-point order
ticker_rank(ticker) ==
    CASE ticker = "AAPL" -> 1
      [] ticker = "MSFT" -> 2
      [] ticker = "ZZZZ" -> 3

\* a faulty variant, for sensitivity: Error results get a group of their own
sort_key_errors_last(x) ==
    IF x.Status = "Underpriced" THEN <<0, -x.Price_Difference_Raw>>
    ELSE IF x.Status = "Error" THEN <<2, ticker_rank(x.Ticker)>>
    ELSE <<1, ticker_rank(x.Ticker)>>

\* lines 986-992: sort_key
sort_key(x) ==
    IF x.Status = "Underpriced" THEN <<0, -x.Price_Difference_Raw>>
    ELSE <<1, ticker_rank(x.Ticker)>>

\* tuple comparison of two keys
key_less(a, b) == a[1] < b[1] \/ (a[1] = b[1] /\ a[2] < b[2])

\* x placed behind every element whose key is not larger: the sort is stable
RECURSIVE insert_by_key(_, _)
insert_by_key(s, x) ==
    IF s = <<>> THEN <<x>>
    ELSE IF key_less(sort_key(x), sort_key(Head(s))) THEN <<x>> \o s
    ELSE <<Head(s)>> \o insert_by_key(Tail(s), x)

\* line 994: sorted(results, key=sort_key)
RECURSIVE sorted_results_of(_)
sorted_results_of(rs) ==
    IF rs = <<>> THEN <<>>
    ELSE insert_by_key(sorted_results_of(SubSeq(rs, 1, Len(rs) - 1)), rs[Len(rs)])

\* line 1019
underpriced_count_of(rs) ==
    Cardinality({i \in 1..Len(rs) : rs[i].Status = "Underpriced"})

\* line 1020
overpriced_count_of(rs) == Len(rs) - underpriced_count_of(rs)

MaxResults == 3

DisplayTickers == {"AAPL", "MSFT", "ZZZZ"}

\* results as process_stock builds them: Underpriced exactly when the raw
\* price difference is positive, Error with every number zero
DisplayInputs ==
    {[error_result(t) EXCEPT !.Status = "Underpriced", !.Price_Difference_Raw = d,
                             !.PriceDifference = format_cents(d)]
        : t \in DisplayTickers, d \in {5000, 9000}}
    \cup {[error_result(t) EXCEPT !.Status = "Overpriced", !.Price_Difference_Raw = -4000,
                                  !.PriceDifference = format_cents(-4000)]
        : t \in DisplayTickers}
    \cup {error_result(t) : t \in DisplayTickers}

DisplayInit ==
    /\ display_call \in [shown : {FALSE},
                         results : SeqsUpTo(DisplayInputs, MaxResults),
                         sorted_results : {<<>>},
                         underpriced_count : {0},
                         overpriced_count : {0}]
    /\ CalcIdle
    /\ PeIdle
    /\ AggIdle
    /\ FetchIdle
    /\ OrchIdle

\* lines 965-1027: one call of display_results
DisplayResults ==
    /\ ~display_call.shown
    /\ display_call' = [display_call EXCEPT
                          !.shown = TRUE,
                          !.sorted_results = sorted_results_of(display_call.results),
                          !.underpriced_count = underpriced_count_of(display_call.results),
                          !.overpriced_count = overpriced_count_of(display_call.results)]

DisplayNext ==
    DisplayResults /\ UNCHANGED <<calcVars, peVars, aggVars, fetchVars, orchVars>>

SpecDisplay == DisplayInit /\ [][DisplayNext]_vars

----------------------------------------------------------------------------
(* C1: calculate_fair_value returns max(book_value, 0.6 * dcf_value +      *)
(* 0.4 * comps_value) of the two values its callees returned, and so       *)
(* never less than the record's book_value.                                *)
C1_FairValueFloor ==
    calc_pc = "done" =>
        /\ fair_value >= stock_data.book_value
        /\ fair_value = Max(stock_data.book_value,
                            (6 * dcf_value + 4 * comps_value) \div 10)

\* the call has returned for a record whose blend lies above its book value
\* and for which the negative-FCF fallback was taken
C1_Witness ==
    /\ calc_pc = "done"
    /\ stock_data.fcf_per_share < 0
    /\ stock_data.book_value > 0
    /\ fair_value > stock_data.book_value
    /\ dcf_value # comps_value

(* C9: whatever the ticker, the sector, the market cap and the answers of  *)
(* the sources, get_conservative_pe_estimate returns a P/E within [5, 40]. *)
C9_PeEstimateBounded ==
    pe_call.made => (pe_call.ret >= 5000 /\ pe_call.ret <= 40000)

\* a call returned for an unlisted sector and no market cap, with a
\* multi-source estimate that the bounds had to cut down to 40
C9_Witness ==
    /\ pe_call.made
    /\ pe_call.sector = "Unlisted"
    /\ pe_call.market_cap = 0
    /\ pe_call.multi = 40000
    /\ pe_call.ret = 40000
----------------------------------------------------------------------------
(* Orchestrator claims, checked under Spec *)

NTickers == Len(fortune_500_tickers)
ErrorEntries == {k \in 1..Len(results) : results[k].Status = "Error"}
FailedFutures == {i \in Futures : fut[i].failed}

(* C2: in every result, Status is Underpriced exactly when the current     *)
(* price of the record is below its fair value; a pipeline that did not    *)
(* fail is Overpriced otherwise, equality included; a failed one is Error  *)
(* and never Underpriced.                                                  *)
C2_StatusMatchesPrices ==
    \A k \in 1..Len(results) :
        LET r == results[k]
            f == fut[collected[k]]
        IN  /\ (r.Status = "Underpriced") <=> (r.Price_Difference_Raw > 0)
            /\ IF f.failed
               THEN r.Status = "Error"
               ELSE LET fv == calculate_fair_value(f.rec)
                    IN  /\ f.rec.current_price < fv => r.Status = "Underpriced"
                        /\ f.rec.current_price >= fv => r.Status = "Overpriced"

\* results holds a ticker priced exactly at its fair value, Overpriced, next
\* to an Underpriced one
C2_Witness ==
    /\ pc = "returned"
    /\ \E k \in 1..Len(results) :
          /\ ~fut[collected[k]].failed
          /\ fut[collected[k]].rec.current_price
                = calculate_fair_value(fut[collected[k]].rec)
          /\ results[k].Status = "Overpriced"
    /\ \E k \in 1..Len(results) : results[k].Status = "Underpriced"

(* C3: when run_valuation returns (no deadline fired), results has exactly *)
(* one entry for each submitted ticker, none lost and none twice, in any   *)
(* order, repeated tickers included.                                       *)
C3_OneResultPerTicker ==
    pc = "returned" =>
        /\ Len(results) = NTickers
        /\ Len(collected) = NTickers
        /\ Collected = 1..NTickers
        /\ \A k \in 1..NTickers : results[k].Ticker = fortune_500_tickers[collected[k]]

\* a returned batch of the same ticker twice on one worker, the results in
\* the opposite order of the input
C3_Witness ==
    /\ pc = "returned"
    /\ max_workers = 1
    /\ NTickers = 2
    /\ fortune_500_tickers[1] = fortune_500_tickers[2]
    /\ collected = <<2, 1>>
    /\ Len(results) = 2

(* C4: a pipeline that raises gives its ticker an Error result with zeroed *)
(* fields; every other result is the valuation of its own record; the      *)
(* batch goes on and is cut short by the deadline only, so a returned      *)
(* batch has one result per ticker, as many Error ones as failed pipelines *)
C4_FaultIsolation ==
    /\ \A k \in 1..Len(results) :
          LET r == results[k]
              f == fut[collected[k]]
          IN  IF f.failed
              THEN /\ r.Status = "Error"
                   /\ r.Ticker = f.ticker
                   /\ r.FairValue = 0 /\ r.CurrentPrice = 0 /\ r.PriceDifference = 0
                   /\ r.BookValue = 0 /\ r.Price_Difference_Raw = 0
              ELSE /\ r = valuation_result(f.ticker, f.rec)
                   /\ r.Status # "Error"
    /\ pc \in {"shutdown", "raised"} => clock > end_time
    /\ pc = "returned" =>
          /\ Len(results) = NTickers
          /\ Cardinality(ErrorEntries) = Cardinality(FailedFutures)

\* a returned batch of two tickers, one pipeline raised, the other valued
C4_Witness ==
    /\ pc = "returned"
    /\ NTickers = 2
    /\ Cardinality(FailedFutures) = 1
    /\ Cardinality(ErrorEntries) = 1
    /\ \E k \in 1..Len(results) : results[k].Status = "Underpriced"

(* C5: when the batch deadline fires with tickers still outstanding, the   *)
(* call ends with one entry per input ticker, the outstanding ones Error.  *)
C5_DeadlineReportsErrors ==
    (late # {} /\ pc \in {"raised", "returned"}) =>
        /\ pc = "returned"
        /\ Len(results) = NTickers
        /\ \A i \in late :
              \E k \in 1..Len(results) :
                  collected[k] = i /\ results[k].Status = "Error"

(* C6: a pipeline that ran longer than the per-ticker limit never has its  *)
(* valuation delivered: its entry in results is Error.                     *)
C6_OverrunForcedToError ==
    \A k \in 1..Len(results) :
        fut[collected[k]].overran => results[k].Status = "Error"

(* C7: run_valuation never ends by raising to its caller; it returns a     *)
(* list that holds the result of every ticker that completed, and that is  *)
(* empty only for an empty input.                                          *)
C7_NeverRaises ==
    /\ pc # "raised"
    /\ pc = "returned" =>
          /\ \A i \in Finished : \E k \in 1..Len(results) :
                 collected[k] = i /\ results[k] = fut[i].result
          /\ results = <<>> => NTickers = 0

(* C8: at every moment at most max_workers pipelines are executing; every  *)
(* other submitted ticker is pending or finished.                          *)
C8_AtMostWRunning ==
    /\ Cardinality(Running) <= max_workers
    /\ \A i \in Futures : fut[i].state \in {"pending", "running", "finished"}

\* the pool is full and a submitted ticker waits for a worker
C8_Witness ==
    /\ Cardinality(Running) = max_workers
    /\ Pending # {}
    /\ pc = "collect"

(* C10: once the cache holds a value for a ticker, the entry is never      *)
(* changed or removed, and a fetch_pe_ratio_multi_source call made for     *)
(* that ticker from then on queries no source.                             *)
C10_CacheEntryStable ==
    [][/\ \A t \in OrchTickers :
             pe_ratio_cache[t] # 0 => pe_ratio_cache'[t] = pe_ratio_cache[t]
       /\ \A i \in Futures :
             (fut[i].step = "fetch" /\ pe_ratio_cache[fut[i].ticker] # 0)
                 => fut'[i].step # "pe_query"]_vars

----------------------------------------------------------------------------
(* Normalizer claims, under SpecFetch *)

RecordFields == {"ticker", "current_price", "fcf_per_share", "eps", "book_value",
                 "sector", "growth_rate", "pe_ratio", "market_cap", "company_name"}

\* C11: every record fetch_stock_data returns has all ten fields, with
\* current_price > 0, book_value >= 0, growth_rate in [0, 0.08] and
\* pe_ratio in [5, 40], whatever the snapshot was.
C11_FieldsInDomain ==
    fetch_call.made =>
        /\ DOMAIN fetch_call.rec = RecordFields
        /\ fetch_call.rec.current_price > 0
        /\ fetch_call.rec.book_value >= 0
        /\ fetch_call.rec.growth_rate >= 0
        /\ fetch_call.rec.growth_rate <= max_growth_rate
        /\ fetch_call.rec.pe_ratio >= min_pe_ratio
        /\ fetch_call.rec.pe_ratio <= max_pe_ratio

\* C12: when the provider call itself succeeded, a field whose extraction
\* fails takes its fallback alone: the sector, the growth rate and the
\* company name of the returned record are still the ones derived from the
\* snapshot.
C12_OtherFieldsStayLive ==
    (fetch_call.made /\ ~fetch_call.snap.raises) =>
        /\ fetch_call.rec.sector = sector_of(fetch_call.snap)
        /\ fetch_call.rec.growth_rate = growth_rate_of(fetch_call.snap)
        /\ fetch_call.rec.company_name =
               Get(fetch_call.snap.longName, Str(fetch_call.ticker))

\* C13: when the provider call fails outright, fetch_stock_data returns the
\* fixed synthetic record (150.0, 8.0, 4.0, 25.0, Technology, 0.06, 150e9),
\* the ticker as company name and a pe_ratio in [5, 40].
C13_SyntheticRecord ==
    (fetch_call.made /\ fetch_call.snap.raises) =>
        /\ DOMAIN fetch_call.rec = RecordFields
        /\ fetch_call.rec.ticker = fetch_call.ticker
        /\ fetch_call.rec.current_price = 150000
        /\ fetch_call.rec.fcf_per_share = 8000
        /\ fetch_call.rec.eps = 4000
        /\ fetch_call.rec.book_value = 25000
        /\ fetch_call.rec.sector = "Technology"
        /\ fetch_call.rec.growth_rate = 60
        /\ fetch_call.rec.market_cap = Num(150000)
        /\ fetch_call.rec.company_name = Str(fetch_call.ticker)
        /\ fetch_call.rec.pe_ratio >= min_pe_ratio
        /\ fetch_call.rec.pe_ratio <= max_pe_ratio

C13_Witness ==
    /\ fetch_call.made
    /\ fetch_call.snap.raises
    /\ fetch_call.synthetic
    /\ fetch_call.rec.current_price = 150000

----------------------------------------------------------------------------
(* Aggregation claims, under SpecAgg *)

----------------------------------------------------------------------------
(* C15: no two workers are ever between the lookup and the write of        *)
(* pe_ratio_cache for the same ticker at the same time.                    *)
C15_NoRaceOnKey ==
    \A i \in Running, j \in Running :
        (i # j /\ fut[i].step = "pe_query" /\ fut[j].step = "pe_query")
            => fut[i].ticker # fut[j].ticker

----------------------------------------------------------------------------
(* C16: calculate_dcf_value returns at least book_value, and values a      *)
(* record whose fcf_per_share is zero or negative exactly as the same      *)
(* record with fcf_per_share = 2.0.                                        *)
C16_DcfFloorAndFcfFallback ==
    calc_pc = "done" =>
        /\ dcf_value >= stock_data.book_value
        /\ stock_data.fcf_per_share <= 0 =>
               dcf_value = calculate_dcf_value([stock_data EXCEPT !.fcf_per_share = 2000])

\* fcf_per_share = -5 with book_value = 50, and a record where the fallback
\* FCF, not the floor, decides the value
C16_Witness ==
    /\ calc_pc = "done"
    /\ stock_data.fcf_per_share = -5000
    /\ \/ stock_data.book_value = 50000 /\ dcf_value >= 50000
       \/ dcf_value > stock_data.book_value

----------------------------------------------------------------------------
(* P/E estimate claims, under SpecPE *)

\* C17: when no source gave a P/E, get_conservative_pe_estimate returns the
\* sector default times the market-cap size factor, clamped to [5, 40], if
\* the market cap is known, and the sector default if it is not.
C17_SectorFallbackSizeAdjusted ==
    (pe_call.made /\ pe_call.multi = 0) =>
        pe_call.ret =
            IF pe_call.market_cap # 0
            THEN Max(min_pe_ratio,
                     Min(size_adjusted_pe(industry_pe_of(pe_call.sector),
                                          pe_call.market_cap), max_pe_ratio))
            ELSE industry_pe_of(pe_call.sector)

\* C18: when a multi-source estimate was obtained, the value returned is
\* the median of the available estimates (multi-source, sector default,
\* and the size-adjusted default if the market cap is known), clamped to
\* [5, 40], with three estimates and with two.
C18_MedianOfEstimates ==
    (pe_call.made /\ pe_call.multi # 0) =>
        LET industry_pe == industry_pe_of(pe_call.sector)
            estimates ==
                IF pe_call.market_cap # 0
                THEN <<pe_call.multi, industry_pe,
                       size_adjusted_pe(industry_pe, pe_call.market_cap)>>
                ELSE <<pe_call.multi, industry_pe>>
        IN  pe_call.ret =
                Max(min_pe_ratio, Min(median_x2(estimates) \div 2, max_pe_ratio))

----------------------------------------------------------------------------
(* Aggregation claims, under SpecAgg (continued) *)

\* Q1 - 1.5 * IQR <= pe <= Q3 + 1.5 * IQR, with the quartiles of data
InsideFences(data, pe) ==
    LET q1 == quartile_x4(data, 1)
        q3 == quartile_x4(data, 3)
    IN  5 * q1 - 3 * q3 <= 8 * pe /\ 8 * pe <= 5 * q3 - 3 * q1

\* C19: for [10, 11, 12, 100] the outlier filter discards 100 and the blend
\* is computed from [10, 11, 12] only; in general, of three or more values,
\* exactly those inside [Q1 - 1.5 IQR, Q3 + 1.5 IQR] are kept.
C19_OutlierDiscarded ==
    agg_call.calls >= 1 =>
        /\ agg_call.input = <<10000, 11000, 12000, 100000>> =>
               /\ agg_call.kept = <<10000, 11000, 12000>>
               /\ agg_call.ret = 11000
        /\ Len(agg_call.input) >= 3 =>
               agg_call.kept =
                   SelectSeq(agg_call.input,
                             LAMBDA pe : InsideFences(agg_call.input, pe))

\* the median of a list: half of its values are at most m and half at least
\* m, m being a value of the list or the mean of the two middle ones
IsMedianX2(data, m2) ==
    /\ 2 * Cardinality({k \in 1..Len(data) : 2 * data[k] <= m2}) >= Len(data)
    /\ 2 * Cardinality({k \in 1..Len(data) : 2 * data[k] >= m2}) >= Len(data)
    /\ \E j \in 1..Len(data), k \in 1..Len(data) :
           /\ m2 = data[j] + data[k]
           /\ \A i \in 1..Len(data) :
                  ~(Min(data[j], data[k]) < data[i] /\ data[i] < Max(data[j], data[k]))

\* C20: the values that remain after outlier rejection are blended so: one
\* value is returned unchanged, two give their mean ([20, 24] gives 22),
\* three or more give 0.6 * median + 0.4 * mean; an empty input gives no
\* estimate.
C20_Blend ==
    agg_call.calls >= 1 =>
        LET kept == agg_call.kept
            n == Len(kept)
        IN  /\ agg_call.input = <<>> => agg_call.ret = 0
            /\ n = 1 => agg_call.ret = kept[1]
            /\ n = 2 => agg_call.ret = (kept[1] + kept[2]) \div 2
            /\ agg_call.input = <<20000, 24000>> => agg_call.ret = 22000
            /\ n >= 3 =>
                   \E m2 \in {kept[j] + kept[k] : j \in 1..n, k \in 1..n} :
                       /\ IsMedianX2(kept, m2)
                       /\ 10 * n * agg_call.ret <= 3 * n * m2 + 4 * SumSeq(kept)
                       /\ 3 * n * m2 + 4 * SumSeq(kept) < 10 * n * (agg_call.ret + 1)

\* three or more values left, median and mean apart
C20_Witness ==
    /\ agg_call.calls >= 1
    /\ Len(agg_call.kept) >= 3
    /\ median_x2(agg_call.kept) * Len(agg_call.kept) # 2 * SumSeq(agg_call.kept)
    /\ agg_call.ret # 0

----------------------------------------------------------------------------
(* P/E source and cache claims, under SpecPE *)

\* C21: whenever at least one source succeeded, fetch_pe_ratio_multi_source
\* returns and caches min(40, max(5, aggregated * 0.85)), aggregated being
\* the blend of the successful source values; a single 18.0 gives 15.3.
C21_DiscountedClampedCached ==
    (pe_call.made /\ pe_call.collected # <<>>) =>
        /\ pe_call.multi =
               Min(40000, Max(5000, (aggregate_pe_ratios(pe_call.collected) * 85) \div 100))
        /\ pe_ratio_cache[pe_call.ticker] = pe_call.multi
        /\ pe_call.collected = <<18000>> => pe_call.multi = 15300

C21_Witness ==
    /\ pe_call.made
    /\ pe_call.collected = <<18000>>
    /\ pe_call.multi = 15300
    /\ pe_ratio_cache[pe_call.ticker] = 15300

\* the size factor of the claim, in percent
C24_Factor(market_cap) ==
    CASE market_cap > 500000 -> 95
      [] market_cap > 100000 /\ market_cap <= 500000 -> 98
      [] market_cap < 10000 -> 85
      [] OTHER -> 92

\* C24: the size-adjusted sector default is the sector default times 0.95
\* above 500e9, 0.98 above 100e9 up to 500e9, 0.85 below 10e9 and 0.92 for
\* every other known market cap, 10e9 and 100e9 included; a sector the
\* table does not list takes the 'Default' entry 18.
C24_SizeFactor ==
    (pe_call.made /\ pe_call.market_cap # 0) =>
        /\ 100 * pe_call.adjusted = pe_call.industry * C24_Factor(pe_call.market_cap)
        /\ pe_call.sector \notin DOMAIN default_industry_pe_ratios
               => pe_call.industry = 18000

\* a market cap of exactly 10e9 or 100e9 for a sector outside the table
C24_Witness ==
    /\ pe_call.made
    /\ pe_call.market_cap \in {10000, 100000}
    /\ pe_call.sector = "Unlisted"
    /\ pe_call.adjusted = 16560

\* C25: every value handed to the aggregation lies strictly between 0 and
\* 150; an answer that is missing, zero, negative or >= 150, and a source
\* that raises, adds nothing and the next source is still asked.
C25_SourceValuesInRange ==
    (pe_call.made /\ pe_call.queried # 0) =>
        /\ \A k \in 1..Len(pe_call.collected) :
               pe_call.collected[k] > 0 /\ pe_call.collected[k] < 150000
        /\ pe_call.queried = 2
        /\ pe_call.ticker \in DOMAIN fallback_pe_ratios =>
               /\ pe_call.collected # <<>>
               /\ pe_call.collected[Len(pe_call.collected)] =
                      fallback_pe_ratios[pe_call.ticker]

\* yfinance gave nothing usable and the local table still answered
C25_Witness ==
    /\ pe_call.made
    /\ pe_call.ticker = "NVDA"
    /\ pe_call.collected = <<55500>>

\* C27: with a known market cap the value returned lies between the
\* size-adjusted and the unadjusted sector default whatever the multi-source
\* estimate is, so at most 15% of the sector default below it.
C27_BetweenSectorDefaults ==
    (pe_call.made /\ pe_call.market_cap # 0) =>
        /\ pe_call.adjusted <= pe_call.ret
        /\ pe_call.ret <= pe_call.industry
        /\ 100 * (pe_call.industry - pe_call.ret) <= 15 * pe_call.industry

\* a multi-source estimate far above the sector default, cut back to it
C27_Witness ==
    /\ pe_call.made
    /\ pe_call.market_cap # 0
    /\ pe_call.multi = 40000
    /\ pe_call.ret = pe_call.industry

C29_CacheWrittenOnSuccessOnly ==
    [][/\ \A t \in PeTickers :
             pe_ratio_cache'[t] # pe_ratio_cache[t] =>
                 /\ pe_call'.ticker = t
                 /\ pe_call'.collected # <<>>
                 /\ pe_ratio_cache'[t] >= 5000
                 /\ pe_ratio_cache'[t] <= 40000
       /\ pe_ratio_cache[pe_call'.ticker] = 0 =>
             /\ pe_call'.queried = 2
             /\ pe_call'.collected = <<>> => pe_ratio_cache'[pe_call'.ticker] = 0
      ]_vars

\* every source failed for the ticker and its cache entry is still empty
C29_Witness ==
    /\ pe_call.made
    /\ pe_call.queried = 2
    /\ pe_call.collected = <<>>
    /\ pe_ratio_cache[pe_call.ticker] = 0

----------------------------------------------------------------------------
(* Normalizer claims, under SpecFetch (continued) *)

\* C22: fcf_per_share is free cash flow / shares outstanding only when both
\* are present in the snapshot and positive; in every other case it is
\* max(2.0, current_price * 0.05), 10.0 for a price of 200 with no FCF and
\* no share count.
C22_FcfPerShare ==
    (fetch_call.made /\ ~fetch_call.synthetic) =>
        LET snap == fetch_call.snap
            fcf == snap.freeCashflow
            shares == snap.sharesOutstanding
            price == fetch_call.rec.current_price
        IN  fetch_call.rec.fcf_per_share =
                IF fcf.k = "num" /\ fcf.v > 0 /\ shares.k = "num" /\ shares.v > 0
                THEN (fcf.v * 1000) \div shares.v
                ELSE Max(2000, (price * 5) \div 100)

\* the first of the values that is a number, 0 if none is
RECURSIVE FirstUsable(_)
FirstUsable(xs) ==
    IF xs = <<>> THEN [k |-> "none", v |-> 0]
    ELSE IF Head(xs).k = "num" THEN Head(xs) ELSE FirstUsable(Tail(xs))

\* C23: eps is the trailing EPS when it is usable, else the forward EPS
\* when it is usable, else the diluted EPS when it is usable, and
\* max(1.0, current_price * 0.03) only when none of the three is; a field
\* that is present but None is not usable.  (A resulting eps of 0 is
\* returned as 1.0.)
C23_EpsPreference ==
    (fetch_call.made /\ ~fetch_call.synthetic) =>
        LET snap == fetch_call.snap
            best == FirstUsable(<<snap.trailingEps, snap.forwardEps, snap.dilutedEPS>>)
            price == fetch_call.rec.current_price
            eps == IF best.k = "num" THEN best.v ELSE Max(1000, (price * 3) \div 100)
        IN  fetch_call.rec.eps = IF eps = 0 THEN 1000 ELSE eps

----------------------------------------------------------------------------
(* Aggregation claims, under SpecAgg (three values) *)

MinOf3(s) == Min(s[1], Min(s[2], s[3]))
MaxOf3(s) == Max(s[1], Max(s[2], s[3]))

\* C26: of exactly three values none is ever discarded: the quartiles are
\* the smallest and the largest of the three, every value lies inside the
\* outlier bounds, and the result is 0.6 * median + 0.4 * mean of all three.
C26_ThreeValuesAllKept ==
    (agg_call.calls >= 1 /\ Len(agg_call.input) = 3) =>
        LET in == agg_call.input
            total == in[1] + in[2] + in[3]
            middle == total - MinOf3(in) - MaxOf3(in)
            exact30 == 18 * middle + 4 * total
        IN  /\ quartile_x4(in, 1) = 4 * MinOf3(in)
            /\ quartile_x4(in, 3) = 4 * MaxOf3(in)
            /\ \A k \in 1..3 : InsideFences(in, in[k])
            /\ agg_call.kept = in
            /\ 30 * agg_call.ret <= exact30
            /\ exact30 < 30 * (agg_call.ret + 1)

\* two values close together and a third far away
C26_Witness ==
    /\ agg_call.calls >= 1
    /\ agg_call.input = <<10000, 100000, 11000>>
    /\ agg_call.kept = agg_call.input
    /\ agg_call.ret = 22733

Shown == display_call # Unused /\ display_call.shown

Occurrences(s, x) == Cardinality({i \in 1..Len(s) : s[i] = x})

(* C30: display_results places every result whose Status is not            *)
(* "Underpriced", Error results included, after all Underpriced results;   *)
(* the Underpriced ones come in descending price difference, the others    *)
(* (Overpriced and Error together) alphabetically by ticker; the summary   *)
(* counts every non-Underpriced result as Overpriced, so the two counts    *)
(* add up to the number of results.                                        *)
C30_ErrorsSortedAndCountedAsOverpriced ==
    Shown =>
        LET rs == display_call.results
            s  == display_call.sorted_results
            U(i) == s[i].Status = "Underpriced"
        IN  /\ Len(s) = Len(rs)
            /\ \A x \in DisplayInputs : Occurrences(s, x) = Occurrences(rs, x)
            /\ \A i, j \in 1..Len(s) :
                 i < j =>
                   /\ U(j) => U(i)
                   /\ (U(i) /\ U(j)) =>
                        s[i].Price_Difference_Raw >= s[j].Price_Difference_Raw
                   /\ (~U(i) /\ ~U(j)) =>
                        ticker_rank(s[i].Ticker) <= ticker_rank(s[j].Ticker)
            /\ display_call.underpriced_count =
                 Cardinality({i \in 1..Len(rs) : rs[i].Status = "Underpriced"})
            /\ display_call.overpriced_count =
                 Cardinality({i \in 1..Len(rs) : rs[i].Status # "Underpriced"})
            /\ display_call.underpriced_count + display_call.overpriced_count = Len(rs)

\* an Overpriced MSFT, an Error AAPL and an Underpriced result were handed
\* over in that order: the table shows Underpriced, Error AAPL, Overpriced
\* MSFT and the summary says 1 Underpriced, 2 Overpriced
C30_Witness ==
    /\ Shown
    /\ Len(display_call.results) = 3
    /\ display_call.results[1].Status = "Overpriced"
    /\ display_call.results[1].Ticker = "MSFT"
    /\ display_call.results[2] = error_result("AAPL")
    /\ display_call.results[3].Status = "Underpriced"
    /\ display_call.sorted_results[1].Status = "Underpriced"
    /\ display_call.sorted_results[2] = error_result("AAPL")
    /\ display_call.sorted_results[3].Ticker = "MSFT"
    /\ display_call.underpriced_count = 1
    /\ display_call.overpriced_count = 2

====
